---- MODULE Spec2Model ----
(***************************************************************************)
(* The six tools of the sql-polyglot plugin (src/tools/*.py).  Each tool's *)
(* _invoke is a generator over the tool parameters: it guards them, calls  *)
(* the SQL engine (parse, render, optimize, execute, transpile) and yields *)
(* text and JSON messages to the host.  The engine is a library outside    *)
(* the repository: what one of its calls returns or raises is drawn as an  *)
(* input of the invocation (the variable env), within the sets below.      *)
(***************************************************************************)
EXTENDS Integers, Sequences, FiniteSets, TLC

VARIABLES
    tool,     \* which tool the host invokes
    params,   \* tool_parameters, as the host passes them
    pc,       \* "ready" before _invoke runs, "done" once the generator is exhausted
    env,      \* what the engine's calls returned or raised during the invocation
    out       \* what the invocation did: messages yielded, engine calls made, fault

vars == <<tool, params, pc, env, out>>

(***************************************************************************)
(* Bounds of the model.                                                    *)
(***************************************************************************)
\* longest traversal sequence of one node class in an analysed statement
MaxNodes == 2
\* the render call (1-based) that may raise; 0 = none raises
MaxRenderFail == 2

(***************************************************************************)
(* Python values.                                                          *)
(***************************************************************************)
\* Python's None, where the other values of the slot are strings
None == "<None>"
\* a key the host left out of tool_parameters
Absent == "<absent>"

\* tool_parameters.get(key, default)
Get(p, key, default) == IF p[key] = Absent THEN default ELSE p[key]

\* truth value of a str-or-None parameter (`if not sql`, `dialect if dialect else ...`)
Truthy(v) == v # "" /\ v # None

\* `dialect if dialect else None`
ParseDialectEmptyPassed(dialect) == dialect
ParseDialectKnownOnly(dialect) == IF dialect \in {"mysql", "postgres"} THEN dialect ELSE None
ParseDialect(dialect) == IF Truthy(dialect) THEN dialect ELSE None

\* `dialect if dialect else "auto-detected"`
DialectLabel(dialect) == IF Truthy(dialect) THEN dialect ELSE "auto-detected"

\* str(e), type(e).__name__
Str(e) == e.msg
TypeName(e) == e.cls

(***************************************************************************)
(* Exceptions.                                                             *)
(***************************************************************************)
NoExc == [cls |-> "<none>", msg |-> "", errors |-> <<>>]
Exc(cls) == [cls |-> cls, msg |-> cls \o " raised", errors |-> <<>>]
\* a ParseError raised on an unexpected token: the message text, and in
\* e.errors the parser's structured error
ParseErr ==
    [cls |-> "ParseError",
     msg |-> "Expected expression. Line 1, Col: 8. SELECT FROM",
     errors |-> << [description |-> "Expected expression", line |-> 1, col |-> 8,
                    start_context |-> "SELECT ", highlight |-> "FROM",
                    end_context |-> ""] >>]
\* a ParseError raised with a message alone: e.errors is empty
ParseErrNoDetail ==
    [cls |-> "ParseError", msg |-> "No expression was parsed", errors |-> <<>>]
\* the classes an engine call raises besides ParseError; all derive from Exception
EngineErrors == {ParseErr, Exc("TokenError"), Exc("ValueError"), Exc("OptimizeError"),
                 Exc("ExecuteError"), Exc("RecursionError")}
Raised(o) == o.exc # NoExc

\* the except clauses of every _invoke, in order: `except ParseError`, `except Exception`
ExceptClauses == <<"ParseError", "Exception">>
\* isinstance(e, clause)
CatchesOnlyNamed(clause, cls) == cls = clause
Catches(clause, cls) == clause = cls \/ clause = "Exception"
\* the first clause that catches cls; "<escapes>" if none does
Handler(cls) ==
    IF Catches(ExceptClauses[1], cls) THEN ExceptClauses[1]
    ELSE IF Catches(ExceptClauses[2], cls) THEN ExceptClauses[2]
    ELSE "<escapes>"

(***************************************************************************)
(* The engine: dialect registry, statements, rendered text.                *)
(***************************************************************************)
\* the names the dialect registry knows
KnownDialects == {"mysql", "postgres"}
\* a falsy selector is the default grammar, a registered name its dialect
Resolves(d) == d \in KnownDialects \/ ~Truthy(d)

\* the SQL texts the host passes, by what the parser makes of them
SqlStatement == "<a statement>"
SqlScript == "<two statements>"
SqlBlank == ";"
SqlBad == "SELECT FROM"
SqlLateBad == "SELECT 1; SELECT FROM"
SqlToken == "SELECT 'x"
SqlTexts == {SqlStatement, SqlScript, SqlBlank, SqlBad, SqlLateBad, SqlToken}

\* a parsed statement: its root class and, per node class, the nodes in the
\* order find_all yields them
Stmt(type, text) ==
    [type |-> type, text |-> text, tables |-> <<>>, columns |-> <<>>, selects |-> <<>>,
     funcs |-> <<>>, joins |-> <<>>, subqueries |-> <<>>, wheres |-> <<>>,
     groups |-> <<>>, orders |-> <<>>]
\* a None in the list sqlglot.parse returns (an empty statement)
NoneStmt == Stmt(None, None)
IsNone(stmt) == stmt.type = None
\* the statements parsed by the tools that do not look inside them
PlainStmts == {Stmt("Select", "SELECT 1"), Stmt("Create", "CREATE TABLE t (x INT)")}

\* the text node.sql(dialect=..., pretty=...) returns
Rendered(text, dialect, pretty) == [text |-> text, dialect |-> dialect, pretty |-> pretty]
\* None where a rendered text may stand
NoSql == Rendered(None, None, FALSE)

\* one call of the engine, as the tool made it
Call(fn, dialect) == [fn |-> fn, dialect |-> dialect, write |-> None]
Call2(fn, read, write) == [fn |-> fn, dialect |-> read, write |-> write]

Return(v) == [exc |-> NoExc, val |-> v]
Raise(e) == [exc |-> e, val |-> <<>>]

\* sqlglot.parse(sql, dialect=d): the list of statements, or the exception
ParseOutcomes(sql, d, stmts) ==
    IF ~Resolves(d) THEN {Raise(Exc("ValueError"))}
    ELSE IF sql = SqlStatement THEN {Return(<<s>>) : s \in stmts}
    ELSE IF sql = SqlScript THEN {Return(<<s, t>>) : s \in PlainStmts, t \in PlainStmts}
    ELSE IF sql = SqlBlank THEN {Return(<<NoneStmt>>), Return(<<>>)}
    ELSE IF sql = SqlToken THEN {Raise(Exc("TokenError"))}
    ELSE {Raise(ParseErr)}

\* sqlglot.parse_one(sql, dialect=d): the first statement, or the exception
ParseOneOutcomes(sql, d, stmts) ==
    IF ~Resolves(d) THEN {Raise(Exc("ValueError"))}
    ELSE IF sql = SqlStatement THEN {Return(s) : s \in stmts}
    ELSE IF sql = SqlScript THEN {Return(s) : s \in PlainStmts}
    ELSE IF sql = SqlBlank THEN {Return(NoneStmt), Raise(ParseErrNoDetail)}
    ELSE IF sql = SqlToken THEN {Raise(Exc("TokenError"))}
    ELSE {Raise(ParseErr)}

\* the render calls an invocation makes: call number env.renderFail raises
\* env.renderExc, the calls after it are never made
RenderRaises(e, rcalls) == e.renderFail >= 1 /\ e.renderFail <= Len(rcalls)
RenderCallsMade(e, rcalls) ==
    IF RenderRaises(e, rcalls) THEN SubSeq(rcalls, 1, e.renderFail) ELSE rcalls

(***************************************************************************)
(* Messages and the result of an invocation.                               *)
(***************************************************************************)
\* self.create_text_message, self.create_json_message
Text(tag, body) == [kind |-> "text", tag |-> tag, body |-> body]
Json(tag, body) == [kind |-> "json", tag |-> tag, body |-> body]

\* msgs: the messages yielded, in order; calls: the engine calls made, in order;
\* escaped: an exception left _invoke; path: the branch the invocation ended in;
\* fault: the exception that ended the try block (NoExc if none did)
Result(msgs, calls, path) ==
    [msgs |-> msgs, calls |-> calls, escaped |-> FALSE, path |-> path, fault |-> NoExc]
\* the invocation ended in an except clause that caught e
Caught(msgs, calls, path, e) == [Result(msgs, calls, path) EXCEPT !.fault = e]
\* no except clause caught e: it leaves the generator
Escaped(calls, e) ==
    [msgs |-> <<>>, calls |-> calls, escaped |-> TRUE, path |-> "escaped", fault |-> e]

\* the `except ParseError` / `except Exception` clauses shared by analyze, execute,
\* format, optimize and transpile; what names the failing action
ErrorPayload(e, sql, errtype) ==
    [success |-> FALSE, error_type |-> errtype, error_message |-> Str(e),
     original_sql |-> sql]
\* an except clause that also reports the statements handled before the failure
CatchWithPartial(what, e, sql, calls) ==
    Caught(<<Text("Formatted SQL", [sql |-> <<"partial">>]),
             Json("error", [success |-> FALSE, error_type |-> TypeName(e),
                            error_message |-> Str(e), original_sql |-> sql,
                            statement_count |-> 1])>>, calls, "error", e)
\* an except clause that yields the payload first and the text after it
CatchJsonFirst(what, e, sql, calls) ==
    Caught(<<Json("error", ErrorPayload(e, sql, TypeName(e))),
             Text(what, [error |-> Str(e)])>>, calls, "error", e)
Catch(what, e, sql, calls) ==
    IF Handler(e.cls) = "ParseError"
    THEN Caught(<<Text("SQL Parse Error", [error |-> Str(e)]),
                  Json("error", ErrorPayload(e, sql, "ParseError"))>>, calls, "parse_error", e)
    ELSE IF Handler(e.cls) = "Exception"
    THEN Caught(<<Text(what, [error |-> Str(e)]),
                  Json("error", ErrorPayload(e, sql, TypeName(e)))>>, calls, "error", e)
    ELSE Escaped(calls, e)

(***************************************************************************)
(* validate_sql                                                            *)
(***************************************************************************)
\* [stmt for stmt in parsed if stmt is not None]
NotNone(stmt) == ~IsNone(stmt)
ValidStatements(parsed) == SelectSeq(parsed, NotNone)

\* the error_details of validate's ParseError payload
ErrorDetails(e) ==
    [i \in 1..Len(e.errors) |->
        [description |-> e.errors[i].description, line |-> e.errors[i].line,
         col |-> e.errors[i].col, start_context |-> e.errors[i].start_context,
         highlight |-> e.errors[i].highlight, end_context |-> e.errors[i].end_context]]

ValidateCatch(e, sql, dialect, calls) ==
    IF Handler(e.cls) = "ParseError"
    THEN LET info == [valid |-> FALSE, error_type |-> "ParseError",
                      error_message |-> Str(e), original_sql |-> sql,
                      dialect |-> DialectLabel(dialect)]
             full == IF e.errors # <<>>
                     THEN info @@ [error_details |-> ErrorDetails(e)] ELSE info
         IN Caught(<<Text("SQL Validation Failed", [error |-> Str(e)]),
                     Json("error", full)>>, calls, "parse_error", e)
    ELSE IF Handler(e.cls) = "Exception"
    THEN Caught(<<Text("Error validating SQL", [error |-> Str(e)]),
                  Json("error", [valid |-> FALSE, error_type |-> TypeName(e),
                                 error_message |-> Str(e), original_sql |-> sql])>>,
                calls, "error", e)
    ELSE Escaped(calls, e)

ValidateInvoke(p, e) ==
    LET sql == Get(p, "sql", "")
        dialect == Get(p, "dialect", "")
        parse_dialect == ParseDialect(dialect)
        c1 == <<Call("parse", parse_dialect)>>
    IN
    IF ~Truthy(sql) THEN Result(<<Text("SQL query is required.", [a |-> 0])>>, <<>>, "guard_sql")
    ELSE IF Raised(e.parse) THEN ValidateCatch(e.parse.exc, sql, dialect, c1)
    ELSE
    LET valid == ValidStatements(e.parse.val)
        rcalls == [i \in 1..Len(valid) |-> Call("sql", None)]
        statement_info ==
            [i \in 1..Len(valid) |->
                [index |-> i, type |-> valid[i].type,
                 sql |-> Rendered(valid[i].text, None, TRUE)]]
        response ==
            [valid |-> TRUE, dialect |-> DialectLabel(dialect),
             statement_count |-> Len(valid), statements |-> statement_info,
             warnings |-> <<>>, original_sql |-> sql]
    IN
    IF valid = <<>>
    THEN Result(<<Text("No valid SQL statements found in the query.", [a |-> 0]),
                  Json("error", [valid |-> FALSE, error |-> "No valid SQL statements found",
                                 original_sql |-> sql])>>, c1, "no_statements")
    ELSE IF RenderRaises(e, rcalls)
    THEN ValidateCatch(e.renderExc, sql, dialect, c1 \o RenderCallsMade(e, rcalls))
    ELSE Result(<<Text("SQL is valid!", [count |-> Len(valid)]),
                  Text("Statement types", [types |-> [i \in 1..Len(valid) |-> valid[i].type]]),
                  Json("success", response)>>, c1 \o rcalls, "success")

(***************************************************************************)
(* analyze_sql                                                             *)
(***************************************************************************)
\* `x if x else None` on a node attribute (the engine gives "" for a missing one)
OrNone(v) == IF v # "" THEN v ELSE None

\* table_info of one exp.Table node
TableInfo(table) ==
    [name |-> table.name, alias |-> OrNone(table.alias), db |-> OrNone(table.db),
     catalog |-> OrNone(table.catalog)]

\* column_info of one exp.Column node; alias_or_name is `alias or name`
ColumnInfo(column) ==
    [name |-> column.name, table |-> OrNone(column.table),
     alias_or_name |-> IF column.alias # "" THEN column.alias ELSE column.name]

\* `if info not in infos: infos.append(info)`
AppendAlways(infos, info) == Append(infos, info)
AppendNew(infos, info) ==
    IF \E i \in 1..Len(infos) : infos[i] = info THEN infos ELSE Append(infos, info)

\* the loop `for node in parsed.find_all(cls)` that builds a deduplicated list
RECURSIVE CollectNew(_, _)
CollectNew(infos, n) ==
    IF n = 0 THEN <<>> ELSE AppendNew(CollectNew(infos, n - 1), infos[n])

TablesOf(parsed) ==
    CollectNew([i \in 1..Len(parsed.tables) |-> TableInfo(parsed.tables[i])],
               Len(parsed.tables))
ColumnsOf(parsed) ==
    CollectNew([i \in 1..Len(parsed.columns) |-> ColumnInfo(parsed.columns[i])],
               Len(parsed.columns))

\* the alias entries of one SELECT's projection list
RECURSIVE ProjectionAliases(_, _)
ProjectionAliases(expressions, n) ==
    IF n = 0 THEN <<>>
    ELSE LET projection == expressions[n]
             before == ProjectionAliases(expressions, n - 1)
         IN IF projection.alias # ""
            THEN Append(before, [alias |-> projection.alias,
                                 expression |-> Rendered(projection.this, None, FALSE)])
            ELSE before

\* `for select in parsed.find_all(exp.Select): for projection in select.expressions`
SelectsScannedTopOnly(selects) == SelectSeq(selects, LAMBDA s : ~s.nested)
SelectsScanned(selects) == selects
RECURSIVE AliasesOfSelects(_, _)
AliasesOfSelects(selects, n) ==
    IF n = 0 THEN <<>>
    ELSE AliasesOfSelects(selects, n - 1)
         \o ProjectionAliases(selects[n].expressions, Len(selects[n].expressions))
AliasesOf(parsed) ==
    AliasesOfSelects(SelectsScanned(parsed.selects), Len(SelectsScanned(parsed.selects)))

\* func_name = type(func).__name__: the node's class, the key of the functions list
FuncKey(func) == func.cls
RECURSIVE FunctionsOfFuncs(_, _)
FunctionsOfFuncs(funcs, n) ==
    IF n = 0 THEN <<>>
    ELSE LET before == FunctionsOfFuncs(funcs, n - 1)
             func_name == FuncKey(funcs[n])
         IN IF \E i \in 1..Len(before) : before[i].name = func_name
            THEN before
            ELSE Append(before, [name |-> func_name,
                                 sql |-> Rendered(funcs[n].sql, None, FALSE)])
FunctionsOf(parsed) == FunctionsOfFuncs(parsed.funcs, Len(parsed.funcs))

\* join_info of one exp.Join node
JoinInfo(join) ==
    [type |-> IF join.kind # "" THEN join.kind ELSE "INNER",
     table |-> join.this,
     on_condition |-> IF join.on # "" THEN Rendered(join.on, None, FALSE) ELSE NoSql]
JoinsOf(parsed) == [i \in 1..Len(parsed.joins) |-> JoinInfo(parsed.joins[i])]

SubqueriesOf(parsed) ==
    [i \in 1..Len(parsed.subqueries) |->
        [alias |-> OrNone(parsed.subqueries[i].alias),
         sql |-> Rendered(parsed.subqueries[i].this, None, FALSE)]]
WhereConditionsOf(parsed) ==
    [i \in 1..Len(parsed.wheres) |-> Rendered(parsed.wheres[i], None, FALSE)]
RECURSIVE Flatten(_, _)
Flatten(seqs, n) == IF n = 0 THEN <<>> ELSE Flatten(seqs, n - 1) \o seqs[n]
GroupByOf(parsed) ==
    LET exprs == Flatten(parsed.groups, Len(parsed.groups))
    IN [i \in 1..Len(exprs) |-> Rendered(exprs[i], None, FALSE)]
OrderByOf(parsed) ==
    LET exprs == Flatten(parsed.orders, Len(parsed.orders))
    IN [i \in 1..Len(exprs) |->
           [expression |-> Rendered(exprs[i].this, None, FALSE), desc |-> exprs[i].desc]]

\* query_type = type(parsed).__name__
QueryTypeFolded(parsed) ==
    IF parsed.type \in {"Select", "Insert", "Update", "Delete"} THEN parsed.type ELSE "Other"
QueryType(parsed) == parsed.type

\* the .sql() calls of the extraction, in the order the code makes them
AnalyzeRenderCalls(parsed) ==
    LET on_calls == SelectSeq(parsed.joins, LAMBDA j : j.on # "")
        n == Len(AliasesOf(parsed)) + Len(FunctionsOf(parsed)) + Len(on_calls)
             + Len(parsed.subqueries) + Len(parsed.wheres) + Len(GroupByOf(parsed))
             + Len(OrderByOf(parsed))
    IN [i \in 1..n |-> Call("sql", None)]

AnalyzeResponse(parsed, sql, dialect) ==
    [query_type |-> QueryType(parsed), tables |-> TablesOf(parsed),
     columns |-> ColumnsOf(parsed), aliases |-> AliasesOf(parsed),
     functions |-> FunctionsOf(parsed), joins |-> JoinsOf(parsed),
     subqueries |-> SubqueriesOf(parsed), where_conditions |-> WhereConditionsOf(parsed),
     group_by |-> GroupByOf(parsed), order_by |-> OrderByOf(parsed),
     dialect |-> DialectLabel(dialect), original_sql |-> sql]

AnalyzeInvoke(p, e) ==
    LET sql == Get(p, "sql", "")
        dialect == Get(p, "dialect", "")
        parse_dialect == ParseDialect(dialect)
        c1 == <<Call("parse_one", parse_dialect)>>
    IN
    IF ~Truthy(sql) THEN Result(<<Text("SQL query is required.", [a |-> 0])>>, <<>>, "guard_sql")
    ELSE IF Raised(e.parse) THEN Catch("Error analyzing SQL", e.parse.exc, sql, c1)
    ELSE IF IsNone(e.parse.val)
    THEN Result(<<Text("Failed to parse SQL query.", [a |-> 0])>>, c1, "parsed_none")
    ELSE
    LET parsed == e.parse.val
        rcalls == AnalyzeRenderCalls(parsed)
        response == AnalyzeResponse(parsed, sql, dialect)
        summary == [query_type |-> response.query_type, tables |-> Len(response.tables),
                    columns |-> Len(response.columns), joins |-> Len(response.joins),
                    functions |-> Len(response.functions)]
    IN
    IF RenderRaises(e, rcalls)
    THEN Catch("Error analyzing SQL", e.renderExc, sql, c1 \o RenderCallsMade(e, rcalls))
    ELSE Result(<<Text("SQL Analysis", summary), Json("success", response)>>,
                c1 \o rcalls, "success")

(***************************************************************************)
(* format_sql                                                              *)
(***************************************************************************)
FormatInvoke(p, e) ==
    LET sql == Get(p, "sql", "")
        dialect == Get(p, "dialect", "")
        parse_dialect == ParseDialect(dialect)
        c1 == <<Call("parse", parse_dialect)>>
    IN
    IF ~Truthy(sql) THEN Result(<<Text("SQL query is required.", [a |-> 0])>>, <<>>, "guard_sql")
    ELSE IF Raised(e.parse) THEN Catch("Error formatting SQL", e.parse.exc, sql, c1)
    ELSE IF e.parse.val = <<>>
    THEN Result(<<Text("Failed to parse SQL query.", [a |-> 0])>>, c1, "parsed_none")
    ELSE
    LET valid == ValidStatements(e.parse.val)
        rcalls == [i \in 1..Len(valid) |-> Call("sql", parse_dialect)]
        formatted_statements ==
            [i \in 1..Len(valid) |-> Rendered(valid[i].text, parse_dialect, TRUE)]
        response ==
            [original_sql |-> sql, formatted_sql |-> formatted_statements,
             dialect |-> DialectLabel(dialect),
             statement_count |-> Len(formatted_statements)]
    IN
    IF RenderRaises(e, rcalls)
    THEN Catch("Error formatting SQL", e.renderExc, sql, c1 \o RenderCallsMade(e, rcalls))
    ELSE IF formatted_statements = <<>>
    THEN Result(<<Text("No valid SQL statements found.", [a |-> 0])>>, c1, "no_statements")
    ELSE Result(<<Text("Successfully formatted", [count |-> Len(formatted_statements)]),
                  Text("Formatted SQL", [sql |-> formatted_statements]),
                  Json("success", response)>>, c1 \o rcalls, "success")

(***************************************************************************)
(* transpile_sql                                                           *)
(***************************************************************************)
\* sqlglot.transpile(sql, read=r, write=w, pretty=True): one text per statement
\* ("" for an empty statement), or the exception
TranspileOutcomes(sql, r, w) ==
    IF ~Resolves(r) \/ ~Resolves(w) THEN {Raise(Exc("ValueError"))}
    ELSE IF sql = SqlStatement
    THEN {Return(<<Rendered(s.text, w, TRUE)>>) : s \in PlainStmts}
         \cup {Raise(Exc("RecursionError"))}
    ELSE IF sql = SqlScript
    THEN {Return(<<Rendered(s.text, w, TRUE), Rendered(t.text, w, TRUE)>>) :
             s \in PlainStmts, t \in PlainStmts}
    ELSE IF sql = SqlBlank THEN {Return(<<Rendered("", w, TRUE)>>), Return(<<>>)}
    ELSE IF sql = SqlToken THEN {Raise(Exc("TokenError"))}
    ELSE {Raise(ParseErr)}

TranspileInvoke(p, e) ==
    LET sql == Get(p, "sql", "")
        source_dialect == Get(p, "source_dialect", "")
        target_dialect == Get(p, "target_dialect", "")
        read_dialect == ParseDialect(source_dialect)
        c1 == <<Call2("transpile", read_dialect, target_dialect)>>
    IN
    IF ~Truthy(sql) THEN Result(<<Text("SQL query is required.", [a |-> 0])>>, <<>>, "guard_sql")
    ELSE IF ~Truthy(target_dialect)
    THEN Result(<<Text("Target dialect is required.", [a |-> 0])>>, <<>>, "guard_target")
    ELSE IF Raised(e.transpile) THEN Catch("Error transpiling SQL", e.transpile.exc, sql, c1)
    ELSE IF e.transpile.val = <<>>
    THEN Result(<<Text("Failed to transpile SQL query.", [a |-> 0])>>, c1, "parsed_none")
    ELSE
    LET transpiled == e.transpile.val
        response ==
            [original_sql |-> sql, transpiled_sql |-> transpiled,
             source_dialect |-> DialectLabel(source_dialect),
             target_dialect |-> target_dialect, statement_count |-> Len(transpiled)]
    IN Result(<<Text("Successfully transpiled",
                     [source |-> response.source_dialect, target |-> target_dialect]),
                Text("Transpiled SQL", [sql |-> transpiled]),
                Json("success", response)>>, c1, "success")

(***************************************************************************)
(* JSON parameters (schema of optimize, tables of execute).                *)
(***************************************************************************)
JObject(items) == [type |-> "object", items |-> items]
JArray(items) == [type |-> "array", items |-> items]
JNumber(n) == [type |-> "number", items |-> <<n>>]
JItem(key, value) == [key |-> key, value |-> value]
\* bool(value) of a decoded JSON value
JsonTruthy(v) ==
    IF v.type \in {"object", "array"} THEN v.items # <<>>
    ELSE IF v.type = "number" THEN v.items # <<0>>
    ELSE FALSE

JsonEmptyObject == "{}"
JsonSchema == "{\"t\": {\"x\": \"INT\"}}"
JsonArrayText == "[1]"
JsonTableNotArray == "{\"t\": 5}"
JsonRowNotObject == "{\"t\": [{\"v\": 10}], \"u\": [1]}"
JsonTables == "{\"t\": [{\"id\": 1, \"v\": 10}, {\"id\": 2, \"v\": 20}]}"
JsonBroken == "{not json"
\* arrays nested deeper than the decoder's recursion limit
JsonDeep == "[[[[ ... ]]]]"
JsonRowThenTable == "{\"t\": [1], \"u\": 5}"

\* json.loads(text): the decoded value, or JSONDecodeError, or RecursionError for
\* a text nested deeper than the decoder's recursion limit
JsonLoads(text) ==
    CASE text = JsonEmptyObject -> Return(JObject(<<>>))
      [] text = JsonSchema ->
            Return(JObject(<<JItem("t", JObject(<<JItem("x", JNumber(1))>>))>>))
      [] text = JsonArrayText -> Return(JArray(<<JNumber(1)>>))
      [] text = JsonTableNotArray -> Return(JObject(<<JItem("t", JNumber(5))>>))
      [] text = JsonRowNotObject ->
            Return(JObject(<<JItem("t", JArray(<<JObject(<<JItem("v", JNumber(10))>>)>>)),
                             JItem("u", JArray(<<JNumber(1)>>))>>))
      [] text = JsonTables ->
            Return(JObject(<<JItem("t", JArray(<<
                JObject(<<JItem("id", JNumber(1)), JItem("v", JNumber(10))>>),
                JObject(<<JItem("id", JNumber(2)), JItem("v", JNumber(20))>>)>>))>>))
      [] text = JsonRowThenTable ->
            Return(JObject(<<JItem("t", JArray(<<JNumber(1)>>)), JItem("u", JNumber(5))>>))
      [] text = JsonDeep -> Raise(Exc("RecursionError"))
      [] OTHER -> Raise(Exc("JSONDecodeError"))

(***************************************************************************)
(* optimize_sql                                                            *)
(***************************************************************************)
\* the statement sqlglot.optimizer.optimize returns for parsed
Optimized(parsed) == [parsed EXCEPT !.text = "optimized: " \o parsed.text]
\* optimize(parsed, [schema=schema,] dialect=d): the rewritten statement, or the exception
OptimizeErrors == {Exc("OptimizeError"), Exc("RecursionError")}
OptimizeOutcomes(parsed) ==
    {Return(Optimized(parsed))} \cup {Raise(x) : x \in OptimizeErrors}

\* optimization_note after the optimizer call: None unless it raised
OptimizationNoteWhenNoSchema(o, schemaGiven) ==
    IF Raised(o) \/ ~schemaGiven THEN [note |-> "Full optimization requires schema", error |-> Str(o.exc)] ELSE [note |-> None, error |-> Str(NoExc)]
OptimizationNote(o, schemaGiven) ==
    IF Raised(o)
    THEN [note |-> "Full optimization requires schema", error |-> Str(o.exc)]
    ELSE [note |-> None, error |-> Str(NoExc)]
HasNote(n) == n.note # None

\* `except Exception as opt_error: optimized = parsed`
OptimizeFallbackFails(o, parsed) == o
OptimizeFallback(o, parsed) == IF Raised(o) THEN Return(parsed) ELSE o

OptimizeInvoke(p, e) ==
    LET sql == Get(p, "sql", "")
        dialect == Get(p, "dialect", "")
        schema_str == Get(p, "schema", "")
        parse_dialect == ParseDialect(dialect)
        c1 == <<Call("parse_one", parse_dialect)>>
        loaded == IF Truthy(schema_str) THEN JsonLoads(schema_str) ELSE Return(JObject(<<>>))
    IN
    IF ~Truthy(sql) THEN Result(<<Text("SQL query is required.", [a |-> 0])>>, <<>>, "guard_sql")
    ELSE IF Raised(e.parse) THEN Catch("Error optimizing SQL", e.parse.exc, sql, c1)
    ELSE IF IsNone(e.parse.val)
    THEN Result(<<Text("Failed to parse SQL query.", [a |-> 0])>>, c1, "parsed_none")
    ELSE IF Raised(loaded) /\ loaded.exc.cls = "JSONDecodeError"
    THEN Result(<<Text("Invalid schema JSON", [error |-> Str(loaded.exc)])>>, c1, "guard_schema")
    ELSE IF Raised(loaded) THEN Catch("Error optimizing SQL", loaded.exc, sql, c1)
    ELSE
    LET parsed == e.parse.val
        schema == JsonTruthy(loaded.val)
        c2 == <<Call("optimize", parse_dialect)>>
        result == OptimizeFallback(e.opt, parsed)
        optimization_note == OptimizationNote(e.opt, schema)
        c3 == <<Call("sql", parse_dialect)>>
        optimized_sql == Rendered(result.val.text, parse_dialect, TRUE)
        base == [original_sql |-> sql, optimized_sql |-> optimized_sql,
                 dialect |-> DialectLabel(dialect), schema_provided |-> schema,
                 optimization_applied |-> TRUE]
        response == IF HasNote(optimization_note)
                    THEN base @@ [note |-> optimization_note] ELSE base
    IN
    IF Raised(result) THEN Catch("Error optimizing SQL", result.exc, sql, c1 \o c2)
    ELSE IF RenderRaises(e, c3)
    THEN Catch("Error optimizing SQL", e.renderExc, sql, c1 \o c2 \o c3)
    ELSE Result(<<Text("Successfully optimized SQL query", [note |-> optimization_note]),
                  Text("Optimized SQL", [sql |-> optimized_sql]),
                  Json("success", response)>>, c1 \o c2 \o c3, "success")

(***************************************************************************)
(* execute_sql                                                             *)
(***************************************************************************)
\* a value of a result row
IntVal(n) == [t |-> "int", v |-> n]
NoneVal == [t |-> "none", v |-> 0]
DateVal(n) == [t |-> "date", v |-> n]
StrVal(n) == [t |-> "str", v |-> n]

\* a list, a tuple (items: the values in order) and a dict (map: key to value)
ListVal(items) == [t |-> "list", v |-> 0, items |-> items]
TupleVal(items) == [t |-> "tuple", v |-> 0, items |-> items]
DictVal(d) == [t |-> "dict", v |-> 0, map |-> d]

\* _serialize_value: None and str/int/float/bool unchanged, a list or tuple the
\* list of its serialized items, a dict with its values serialized, any other
\* type str(val)
RECURSIVE SerializeValue(_)
SerializeValue(val) ==
    IF val.t \in {"none", "str", "int", "float", "bool"} THEN val
    ELSE IF val.t \in {"list", "tuple"}
    THEN ListVal([i \in 1..Len(val.items) |-> SerializeValue(val.items[i])])
    ELSE IF val.t = "dict"
    THEN DictVal([k \in DOMAIN val.map |-> SerializeValue(val.map[k])])
    ELSE StrVal(val.v)

\* the first guard of the table structure that fails, tables and rows in order:
\* "table" (a table that is no array), "row" (a row that is no object), "ok"
RECURSIVE RowsGuard(_, _)
RowsGuard(rows, n) ==
    IF n = 0 THEN "ok"
    ELSE IF RowsGuard(rows, n - 1) # "ok" THEN RowsGuard(rows, n - 1)
    ELSE IF rows[n].type # "object" THEN "row" ELSE "ok"
\* the table structure checked with every table's array test before any row test
RECURSIVE AllArrays(_, _)
AllArrays(items, n) ==
    n = 0 \/ (AllArrays(items, n - 1) /\ items[n].value.type = "array")
RECURSIVE TablesGuardArraysFirst(_, _)
TablesGuardArraysFirst(items, n) ==
    IF ~AllArrays(items, Len(items)) THEN "table"
    ELSE IF n = 0 THEN "ok"
    ELSE IF TablesGuardArraysFirst(items, n - 1) # "ok"
    THEN TablesGuardArraysFirst(items, n - 1)
    ELSE RowsGuard(items[n].value.items, Len(items[n].value.items))
RECURSIVE TablesGuard(_, _)
TablesGuard(items, n) ==
    IF n = 0 THEN "ok"
    ELSE IF TablesGuard(items, n - 1) # "ok" THEN TablesGuard(items, n - 1)
    ELSE IF items[n].value.type # "array" THEN "table"
    ELSE RowsGuard(items[n].value.items, Len(items[n].value.items))

\* row_dict: one key per column, the value at the column's position (None past the row's end)
RowDict(columns, row) ==
    [c \in {columns[i] : i \in 1..Len(columns)} |->
        LET i == CHOOSE j \in 1..Len(columns) :
                    columns[j] = c /\ \A k \in (j + 1)..Len(columns) : columns[k] # c
        IN SerializeValue(IF i <= Len(row) THEN row[i] ELSE NoneVal)]
\* result_data with the rows taken last to first
ResultDataReversed(result) ==
    [r \in 1..Len(result.rows) |->
        RowDict(result.columns, result.rows[Len(result.rows) - r + 1])]
\* result_data: one row_dict per row of result.rows (each a tuple), in order
ResultData(result) ==
    [r \in 1..Len(result.rows) |-> RowDict(result.columns, result.rows[r])]

\* the guards before the executor call, in the code's order: the first that fails, or "ok"
ExecuteGuard(sql, tables_str) ==
    LET loaded == JsonLoads(tables_str)
        tables == loaded.val
    IN IF ~Truthy(sql) THEN "guard_sql"
       ELSE IF ~Truthy(tables_str) THEN "guard_tables"
       ELSE IF Raised(loaded) /\ loaded.exc.cls = "JSONDecodeError" THEN "guard_json"
       ELSE IF Raised(loaded) THEN "decode_error"
       ELSE IF tables.type # "object" THEN "guard_object"
       ELSE IF TablesGuard(tables.items, Len(tables.items)) = "table" THEN "guard_array"
       ELSE IF TablesGuard(tables.items, Len(tables.items)) = "row" THEN "guard_row"
       ELSE "ok"

\* the one text message of a failed guard
GuardText(guard) ==
    CASE guard = "guard_sql" -> "SQL query is required."
      [] guard = "guard_tables" -> "Data tables are required."
      [] guard = "guard_json" -> "Invalid tables JSON"
      [] guard = "guard_object" -> "Tables must be a JSON object with table names as keys."
      [] guard = "guard_array" -> "Table must be an array of row objects."
      [] guard = "guard_row" -> "Each row in table must be an object."

ExecuteInvoke(p, e) ==
    LET sql == Get(p, "sql", "")
        tables_str == Get(p, "tables", "")
        dialect == Get(p, "dialect", "")
        guard == ExecuteGuard(sql, tables_str)
        parse_dialect == ParseDialect(dialect)
        c1 == <<Call("execute", parse_dialect)>>
    IN
    IF guard = "decode_error"
    THEN Catch("Error executing SQL", JsonLoads(tables_str).exc, sql, <<>>)
    ELSE IF guard # "ok" THEN Result(<<Text(GuardText(guard), [a |-> 0])>>, <<>>, guard)
    ELSE IF Raised(e.exec)
    THEN Caught(<<Text("Query execution failed", [error |-> Str(e.exec.exc)]),
                  Json("error", [success |-> FALSE, error |-> Str(e.exec.exc),
                                 original_sql |-> sql])>>, c1, "exec_error", e.exec.exc)
    ELSE
    LET result == e.exec.val
        columns == result.columns
        result_data == ResultData(result)
        response ==
            [success |-> TRUE, row_count |-> Len(result_data), columns |-> columns,
             data |-> result_data, original_sql |-> sql, dialect |-> DialectLabel(dialect)]
        summary == Text("Query executed successfully.", [rows |-> Len(result_data)])
        table == Text("Results", [columns |-> columns, rows |-> result_data])
    IN Result(IF result_data # <<>> /\ columns # <<>>
              THEN <<summary, table, Json("success", response)>>
              ELSE <<summary, Json("success", response)>>, c1, "success")

(***************************************************************************)
(* The host's inputs.                                                      *)
(***************************************************************************)
Tools == {"validate", "analyze", "format", "transpile", "optimize", "execute"}
SqlParams == {Absent, ""} \cup SqlTexts
DialectParams == {Absent, "", None, "mysql", "nosuch"}
SchemaParams ==
    {Absent, "", JsonEmptyObject, JsonSchema, JsonArrayText, JsonBroken, JsonDeep}
TablesParams == {Absent, "", JsonBroken, JsonDeep, JsonArrayText, JsonTableNotArray,
                 JsonRowNotObject, JsonRowThenTable, JsonEmptyObject, JsonTables}

NoParams ==
    [sql |-> Absent, dialect |-> Absent, source_dialect |-> Absent,
     target_dialect |-> Absent, schema |-> Absent, tables |-> Absent]

\* the parameters each tool reads
ParamsOf(t) ==
    IF t = "transpile"
    THEN {[NoParams EXCEPT !.sql = s, !.source_dialect = d, !.target_dialect = w] :
             s \in SqlParams, d \in DialectParams, w \in DialectParams}
    ELSE IF t = "optimize"
    THEN {[NoParams EXCEPT !.sql = s, !.dialect = d, !.schema = j] :
             s \in SqlParams, d \in DialectParams, j \in SchemaParams}
    ELSE IF t = "execute"
    THEN {[NoParams EXCEPT !.sql = s, !.dialect = d, !.tables = j] :
             s \in SqlParams, d \in DialectParams, j \in TablesParams}
    ELSE {[NoParams EXCEPT !.sql = s, !.dialect = d] : s \in SqlParams, d \in DialectParams}

(***************************************************************************)
(* The statements the analysed SQL parses to.                              *)
(***************************************************************************)
\* the sequences over S of length 1..n
SeqsUpTo(S, n) == UNION {[1..k -> S] : k \in 1..n}

TableNodes ==
    {[name |-> "t", alias |-> a, db |-> q[1], catalog |-> q[2]] :
        a \in {"", "a"}, q \in {<<"", "">>, <<"d", "">>, <<"d", "c">>}}
    \cup {[name |-> "u", alias |-> "", db |-> "", catalog |-> ""]}
ColumnNodes ==
    {[name |-> n, table |-> t, alias |-> ""] : n \in {"x", "y"}, t \in {"", "a"}}
    \cup {[name |-> "x", table |-> "a", alias |-> "z"]}
\* a projection of a SELECT: its alias ("" if none) and the text of its source
SelectNodes ==
    {[nested |-> b, expressions |-> ps] :
        b \in BOOLEAN,
        ps \in {<<[alias |-> "", this |-> "x"]>>, <<[alias |-> "n", this |-> "y + 1"]>>,
                <<[alias |-> "", this |-> "x"], [alias |-> "n", this |-> "y + 1"]>>}}
RootSelect == [nested |-> FALSE, expressions |-> <<[alias |-> "", this |-> "x"]>>]
\* a function call: the node's class, the name called, the call's text.  A function
\* the engine has no class for is an exp.Anonymous node
FuncNodes ==
    {[cls |-> "Sum", name |-> "SUM", sql |-> "SUM(x)"],
     [cls |-> "Sum", name |-> "SUM", sql |-> "SUM(y)"],
     [cls |-> "Count", name |-> "COUNT", sql |-> "COUNT(x)"],
     [cls |-> "Anonymous", name |-> "FOO", sql |-> "FOO(x)"],
     [cls |-> "Anonymous", name |-> "FOO", sql |-> "FOO(y)"],
     [cls |-> "Anonymous", name |-> "BAR", sql |-> "BAR(y)"]}
\* a join: the engine keeps LEFT/RIGHT/FULL in `side` and INNER/OUTER/CROSS in `kind`
JoinNodes ==
    {[side |-> q[1], kind |-> q[2], this |-> "b", on |-> q[3]] :
        q \in {<<"", "", "a.id = b.id">>, <<"", "", "">>, <<"", "INNER", "a.id = b.id">>,
               <<"", "CROSS", "">>, <<"LEFT", "", "a.id = b.id">>,
               <<"LEFT", "OUTER", "a.id = b.id">>}}
SubqueryNodes == {[alias |-> a, this |-> "SELECT 1"] : a \in {"", "s"}}
WhereNodes == {"x > 1", "y = 2"}
GroupNodes == SeqsUpTo({"x", "y"}, 2)
OrderNodes == SeqsUpTo({[this |-> "x", desc |-> b] : b \in BOOLEAN}, 2)

SelectStmt == [Stmt("Select", "SELECT x FROM t") EXCEPT !.selects = <<RootSelect>>]
\* the root of a SELECT statement is the first exp.Select the traversal yields
AnalyzedStmts ==
    {Stmt(t, "<statement>") : t \in {"Insert", "Update", "Delete", "Create", "Union"}}
    \cup {[SelectStmt EXCEPT !.tables = q] : q \in SeqsUpTo(TableNodes, MaxNodes)}
    \cup {[SelectStmt EXCEPT !.columns = q] : q \in SeqsUpTo(ColumnNodes, MaxNodes)}
    \cup {[SelectStmt EXCEPT !.selects = q] :
             q \in {r \in SeqsUpTo(SelectNodes, MaxNodes) : ~r[1].nested}}
    \cup {[Stmt("Union", "<statement>") EXCEPT !.selects = q] :
             q \in SeqsUpTo(SelectNodes, MaxNodes)}
    \cup {[SelectStmt EXCEPT !.funcs = q] : q \in SeqsUpTo(FuncNodes, MaxNodes)}
    \cup {[SelectStmt EXCEPT !.joins = q] : q \in SeqsUpTo(JoinNodes, MaxNodes)}
    \cup {[SelectStmt EXCEPT !.subqueries = q] : q \in SeqsUpTo(SubqueryNodes, MaxNodes)}
    \cup {[SelectStmt EXCEPT !.wheres = q] : q \in SeqsUpTo(WhereNodes, MaxNodes)}
    \cup {[SelectStmt EXCEPT !.groups = <<q>>] : q \in GroupNodes}
    \cup {[SelectStmt EXCEPT !.orders = <<q>>] : q \in OrderNodes}

(***************************************************************************)
(* The engine's answers during one invocation.                             *)
(***************************************************************************)
NoEnv ==
    [parse |-> Return(<<>>), renderFail |-> 0, renderExc |-> NoExc,
     opt |-> Return(<<>>), exec |-> Return(<<>>), transpile |-> Return(<<>>)]

\* the exceptions a render call raises
RenderErrors == {Exc("RecursionError")}
RenderEnvs(base) ==
    {base} \cup {[base EXCEPT !.renderFail = k, !.renderExc = x] :
                    k \in 1..MaxRenderFail, x \in RenderErrors}

\* the relations the executor returns
ResultValues ==
    {IntVal(30), NoneVal, DateVal(7), TupleVal(<<IntVal(1), DateVal(7)>>),
     DictVal([k |-> DateVal(7)])}
Relations ==
    UNION {{[columns |-> cs, rows |-> rs] :
               rs \in {<<>>} \cup SeqsUpTo([1..Len(cs) -> ResultValues], MaxNodes)} :
           cs \in {<<"total">>, <<"id", "v">>}}
\* execute(sql, tables=tables, dialect=d): the result Table, or the exception
ExecuteOutcomes(sql, d) ==
    IF ~Resolves(d) THEN {Raise(Exc("ValueError"))}
    ELSE IF sql = SqlStatement
    THEN {Return(r) : r \in Relations} \cup {Raise(Exc("ExecuteError"))}
    ELSE IF sql = SqlToken THEN {Raise(Exc("TokenError"))}
    ELSE {Raise(ParseErr)}

\* the answers an invocation can get: none for a call it never makes
ParseEnvs(outcomes) ==
    UNION {IF Raised(o) THEN {[NoEnv EXCEPT !.parse = o]}
           ELSE RenderEnvs([NoEnv EXCEPT !.parse = o]) : o \in outcomes}
ValidateEnvs(p) ==
    IF ~Truthy(Get(p, "sql", "")) THEN {NoEnv}
    ELSE ParseEnvs(ParseOutcomes(Get(p, "sql", ""), ParseDialect(Get(p, "dialect", "")),
                                 PlainStmts))
AnalyzeEnvs(p) ==
    IF ~Truthy(Get(p, "sql", "")) THEN {NoEnv}
    ELSE ParseEnvs(ParseOneOutcomes(Get(p, "sql", ""), ParseDialect(Get(p, "dialect", "")),
                                    AnalyzedStmts))
OptimizeEnvs(p) ==
    IF ~Truthy(Get(p, "sql", "")) THEN {NoEnv}
    ELSE UNION {IF Raised(o) \/ IsNone(o.val)
                   \/ (Truthy(Get(p, "schema", "")) /\ Raised(JsonLoads(Get(p, "schema", ""))))
                THEN {[NoEnv EXCEPT !.parse = o]}
                ELSE UNION {RenderEnvs([NoEnv EXCEPT !.parse = o, !.opt = x]) :
                               x \in OptimizeOutcomes(o.val)} :
                o \in ParseOneOutcomes(Get(p, "sql", ""),
                                       ParseDialect(Get(p, "dialect", "")), PlainStmts)}
TranspileEnvs(p) ==
    IF ~Truthy(Get(p, "sql", "")) \/ ~Truthy(Get(p, "target_dialect", "")) THEN {NoEnv}
    ELSE {[NoEnv EXCEPT !.transpile = o] :
             o \in TranspileOutcomes(Get(p, "sql", ""),
                                     ParseDialect(Get(p, "source_dialect", "")),
                                     Get(p, "target_dialect", ""))}
ExecuteEnvs(p) ==
    IF ExecuteGuard(Get(p, "sql", ""), Get(p, "tables", "")) # "ok" THEN {NoEnv}
    ELSE {[NoEnv EXCEPT !.exec = o] :
             o \in ExecuteOutcomes(Get(p, "sql", ""), ParseDialect(Get(p, "dialect", "")))}

(***************************************************************************)
(* The state machine: the host picks a tool and its parameters, and runs   *)
(* the generator _invoke returns to its end.                               *)
(***************************************************************************)
NoOut == Result(<<>>, <<>>, "ready")

Init ==
    /\ tool \in Tools
    /\ params \in ParamsOf(tool)
    /\ pc = "ready"
    /\ env = NoEnv
    /\ out = NoOut

InvokeValidate ==
    /\ pc = "ready" /\ tool = "validate"
    /\ \E e \in ValidateEnvs(params) : env' = e /\ out' = ValidateInvoke(params, e)
    /\ pc' = "done"
    /\ UNCHANGED <<tool, params>>

InvokeAnalyze ==
    /\ pc = "ready" /\ tool = "analyze"
    /\ \E e \in AnalyzeEnvs(params) : env' = e /\ out' = AnalyzeInvoke(params, e)
    /\ pc' = "done"
    /\ UNCHANGED <<tool, params>>

InvokeFormat ==
    /\ pc = "ready" /\ tool = "format"
    /\ \E e \in ValidateEnvs(params) : env' = e /\ out' = FormatInvoke(params, e)
    /\ pc' = "done"
    /\ UNCHANGED <<tool, params>>

InvokeTranspile ==
    /\ pc = "ready" /\ tool = "transpile"
    /\ \E e \in TranspileEnvs(params) : env' = e /\ out' = TranspileInvoke(params, e)
    /\ pc' = "done"
    /\ UNCHANGED <<tool, params>>

InvokeOptimize ==
    /\ pc = "ready" /\ tool = "optimize"
    /\ \E e \in OptimizeEnvs(params) : env' = e /\ out' = OptimizeInvoke(params, e)
    /\ pc' = "done"
    /\ UNCHANGED <<tool, params>>

InvokeExecute ==
    /\ pc = "ready" /\ tool = "execute"
    /\ \E e \in ExecuteEnvs(params) : env' = e /\ out' = ExecuteInvoke(params, e)
    /\ pc' = "done"
    /\ UNCHANGED <<tool, params>>

Next ==
    \/ InvokeValidate
    \/ InvokeAnalyze
    \/ InvokeFormat
    \/ InvokeTranspile
    \/ InvokeOptimize
    \/ InvokeExecute

Spec == Init /\ [][Next]_vars

(***************************************************************************)
(* What the properties below speak of.                                     *)
(***************************************************************************)
Done == pc = "done"
SqlParam == Get(params, "sql", "")
\* the dialect selector of the invocation (the source dialect for transpile)
DialectParam ==
    IF tool = "transpile" THEN Get(params, "source_dialect", "") ELSE Get(params, "dialect", "")
LastMsg == out.msgs[Len(out.msgs)]
\* the messages of a success: summaries, transformed SQL, result rows, the success payload
SuccessTags ==
    {"success", "SQL is valid!", "Statement types", "SQL Analysis", "Successfully formatted",
     "Formatted SQL", "Successfully transpiled", "Transpiled SQL",
     "Successfully optimized SQL query", "Optimized SQL", "Query executed successfully.",
     "Results"}
IsSuccessMsg(m) == m.tag \in SuccessTags
NoSuccessMsg == \A i \in 1..Len(out.msgs) : ~IsSuccessMsg(out.msgs[i])
NoFailureMsg == \A i \in 1..Len(out.msgs) : IsSuccessMsg(out.msgs[i])
EndsInErrorPayload ==
    /\ out.msgs # <<>>
    /\ LastMsg.kind = "json" /\ LastMsg.tag = "error"
\* the analyze tool answered with the metadata of the parsed statement
Analyzed == Done /\ tool = "analyze" /\ out.path = "success"
\* the optimize tool parsed a statement and decoded the schema, if any
OptimizerCalled ==
    /\ Done /\ tool = "optimize"
    /\ \E i \in 1..Len(out.calls) : out.calls[i].fn = "optimize"
\* the schema parameter is absent or empty
NoSchemaParam == ~Truthy(Get(params, "schema", ""))
\* the final rendering of the optimize tool raised
FinalRenderRaised == RenderRaises(env, <<Call("sql", None)>>)

(***************************************************************************)
(* C1: whatever the parameters and whatever an engine call raises, no      *)
(* exception leaves _invoke: the invocation ends with messages emitted,    *)
(* and when an engine exception ended the try block the messages are a     *)
(* failure payload (an error JSON last, no success message).               *)
(***************************************************************************)
C1_NoUncaughtFault ==
    Done =>
        /\ ~out.escaped
        /\ out.msgs # <<>>
        /\ out.fault # NoExc => EndsInErrorPayload /\ NoSuccessMsg

\* an engine call raised an exception that is no ParseError, and it was caught
C1_Witness ==
    /\ Done /\ out.fault # NoExc /\ out.fault.cls # "ParseError"
    /\ ~out.escaped /\ EndsInErrorPayload

C3_Original ==
    (OptimizerCalled /\ Raised(env.opt)) =>
        /\ out.path = "success" /\ NoFailureMsg
        /\ LastMsg.body.optimized_sql.text = env.parse.val.text
        /\ HasNote(out.msgs[1].body.note)
        /\ "note" \in DOMAIN LastMsg.body

(***************************************************************************)
(* C3 as amended: when the optimizer raises on a parsed statement, the     *)
(* tool renders the unoptimized statement; an error payload follows only   *)
(* if that rendering itself raises, and otherwise the success payload      *)
(* holds the rendering of the unoptimized statement and the note is in     *)
(* the text summary and in the JSON payload.                               *)
(***************************************************************************)
C3_DegradesToNoOp ==
    (OptimizerCalled /\ Raised(env.opt)) =>
        /\ out.calls[Len(out.calls)].fn = "sql"
        /\ out.fault # NoExc => FinalRenderRaised /\ out.fault = env.renderExc
        /\ ~FinalRenderRaised =>
              /\ out.path = "success" /\ NoFailureMsg
              /\ LastMsg.kind = "json"
              /\ LastMsg.body.optimized_sql
                    = Rendered(env.parse.val.text, ParseDialect(DialectParam), TRUE)
              /\ HasNote(out.msgs[1].body.note)
              /\ "note" \in DOMAIN LastMsg.body

\* the optimizer raised, a schema was supplied, and the answer is a success with the note
C3_Witness ==
    /\ OptimizerCalled /\ Raised(env.opt) /\ ~NoSchemaParam
    /\ out.path = "success" /\ "note" \in DOMAIN LastMsg.body

(***************************************************************************)
(* C4: the tables list of the metadata has at most one entry per distinct  *)
(* {name, alias, db, catalog} and the columns list at most one per         *)
(* distinct {name, table qualifier, effective alias}; every referenced     *)
(* table and column has its entry, and the entries stand in the order of   *)
(* their first occurrence.                                                 *)
(***************************************************************************)
\* "" for a None attribute of an entry
UnNone(v) == IF v = None THEN "" ELSE v
TableKeys(nodes) ==
    [i \in 1..Len(nodes) |-> <<nodes[i].name, nodes[i].alias, nodes[i].db, nodes[i].catalog>>]
TableEntryKeys(entries) ==
    [i \in 1..Len(entries) |->
        <<entries[i].name, UnNone(entries[i].alias), UnNone(entries[i].db),
          UnNone(entries[i].catalog)>>]
ColumnKeys(nodes) ==
    [i \in 1..Len(nodes) |->
        <<nodes[i].name, nodes[i].table,
          IF nodes[i].alias = "" THEN nodes[i].name ELSE nodes[i].alias>>]
ColumnEntryKeys(entries) ==
    [i \in 1..Len(entries) |->
        <<entries[i].name, UnNone(entries[i].table), entries[i].alias_or_name>>]
FirstAt(keys, k) ==
    CHOOSE i \in 1..Len(keys) : keys[i] = k /\ \A j \in 1..(i - 1) : keys[j] # k
\* entries holds each key of nodes once, in the order of first occurrence
DedupInOrder(nodes, entries) ==
    /\ \A i, j \in 1..Len(entries) : i # j => entries[i] # entries[j]
    /\ \A n \in 1..Len(nodes) : \E i \in 1..Len(entries) : entries[i] = nodes[n]
    /\ \A i \in 1..Len(entries) : \E n \in 1..Len(nodes) : nodes[n] = entries[i]
    /\ \A i, j \in 1..Len(entries) :
          i < j => FirstAt(nodes, entries[i]) < FirstAt(nodes, entries[j])

C4_TablesColumnsDeduplicated ==
    Analyzed =>
        /\ DedupInOrder(TableKeys(env.parse.val.tables), TableEntryKeys(LastMsg.body.tables))
        /\ DedupInOrder(ColumnKeys(env.parse.val.columns),
                        ColumnEntryKeys(LastMsg.body.columns))

\* the column a.x is referenced twice and has one entry
C4_Witness ==
    /\ Analyzed
    /\ Len(env.parse.val.columns) = 2
    /\ env.parse.val.columns[1] = env.parse.val.columns[2]
    /\ env.parse.val.columns[1].table = "a"
    /\ Len(LastMsg.body.columns) = 1

(***************************************************************************)
(* C5 as claimed: the functions list has exactly one entry per distinct    *)
(* function name called in the statement, two calls of differently named   *)
(* functions never share an entry, and the entry carries the call text of  *)
(* the name's first occurrence.                                            *)
(***************************************************************************)
FuncNames(funcs) == [i \in 1..Len(funcs) |-> funcs[i].name]
C5_OneEntryPerFunctionName ==
    Analyzed =>
        LET funcs == env.parse.val.funcs
            names == FuncNames(funcs)
            entries == LastMsg.body.functions
        IN /\ Len(entries) = Cardinality({names[i] : i \in 1..Len(names)})
           /\ \A n \in 1..Len(funcs) :
                 \E i \in 1..Len(entries) :
                    entries[i].sql.text = funcs[FirstAt(names, names[n])].sql

(***************************************************************************)
(* C6 as claimed: the joins list has one entry per join node, in traversal *)
(* order; the entry's kind is the join kind written in the statement, and  *)
(* "INNER" only when the join specifies none; its ON-condition is the      *)
(* condition's text, or null when the join has no ON clause.               *)
(***************************************************************************)
\* the join as written names no kind: no LEFT/RIGHT/FULL, no INNER/OUTER/CROSS
NoKindWritten(join) == join.side = "" /\ join.kind = ""
C6_JoinKindAsWritten ==
    Analyzed =>
        LET joins == env.parse.val.joins
            entries == LastMsg.body.joins
        IN /\ Len(entries) = Len(joins)
           /\ \A i \in 1..Len(joins) :
                 /\ NoKindWritten(joins[i]) => entries[i].type = "INNER"
                 /\ ~NoKindWritten(joins[i]) => entries[i].type \in {joins[i].side, joins[i].kind}
                 /\ entries[i].on_condition =
                       IF joins[i].on = "" THEN NoSql ELSE Rendered(joins[i].on, None, FALSE)

(***************************************************************************)
(* C7 as claimed: the aliases list has entries only for the aliased        *)
(* projections of the top-level SELECT: an aliased projection of a nested  *)
(* SELECT (subquery, CTE) produces no entry.                               *)
(***************************************************************************)
\* the aliased projections of the SELECTs that satisfy keep, in traversal order
AliasedProjections(selects, keep(_)) ==
    LET kept == SelectSeq(selects, keep)
        lists == [i \in 1..Len(kept) |-> kept[i].expressions]
    IN SelectSeq(Flatten(lists, Len(lists)), LAMBDA q : q.alias # "")
AliasEntries(projections) ==
    [i \in 1..Len(projections) |->
        [alias |-> projections[i].alias,
         expression |-> Rendered(projections[i].this, None, FALSE)]]
C7_Original ==
    Analyzed =>
        LastMsg.body.aliases
            = AliasEntries(AliasedProjections(env.parse.val.selects, LAMBDA q : ~q.nested))

(***************************************************************************)
(* C7 as amended: the aliases list has one entry, in traversal order, for  *)
(* every aliased projection of every SELECT of the statement, nested       *)
(* SELECTs included; the entry's expression is the text of the             *)
(* projection's unaliased source.                                          *)
(***************************************************************************)
C7_AliasesOfEverySelect ==
    Analyzed =>
        LastMsg.body.aliases
            = AliasEntries(AliasedProjections(env.parse.val.selects, LAMBDA q : TRUE))

\* an aliased projection of a nested SELECT has its entry
C7_Witness ==
    /\ Analyzed
    /\ \E i \in 1..Len(env.parse.val.selects) :
          /\ env.parse.val.selects[i].nested
          /\ \E k \in 1..Len(env.parse.val.selects[i].expressions) :
                env.parse.val.selects[i].expressions[k].alias = "n"
    /\ ~env.parse.val.selects[1].nested
    /\ env.parse.val.selects[1].expressions = <<[alias |-> "", this |-> "x"]>>
    /\ Len(LastMsg.body.aliases) >= 1

(***************************************************************************)
(* C8 as claimed: query_type is one of Select, Insert, Update, Delete and  *)
(* Other; every statement kind besides the first four is reported Other.   *)
(***************************************************************************)
C8_Original ==
    Analyzed =>
        /\ LastMsg.body.query_type \in {"Select", "Insert", "Update", "Delete", "Other"}
        /\ env.parse.val.type \notin {"Select", "Insert", "Update", "Delete"}
              => LastMsg.body.query_type = "Other"

(***************************************************************************)
(* C8 as amended: query_type is the root statement's own kind name:        *)
(* Select, Insert, Update or Delete for those, and the kind's own name     *)
(* (Create, Union, ...) for any other; no kind is reported as Other.       *)
(***************************************************************************)
C8_QueryTypeIsRootKind ==
    Analyzed =>
        /\ LastMsg.body.query_type = env.parse.val.type
        /\ LastMsg.body.query_type = out.msgs[1].body.query_type
        /\ LastMsg.body.query_type # "Other"

\* a CREATE TABLE is reported as Create
C8_Witness ==
    Analyzed /\ env.parse.val.type = "Create" /\ LastMsg.body.query_type = "Create"

(***************************************************************************)
(* C9: an empty or absent dialect parameter (the source dialect for        *)
(* transpile) is the auto-detect state: every engine call of the           *)
(* invocation gets no dialect (None), never the empty string, so the       *)
(* parse of a valid statement is not refused; and a response reports the   *)
(* dialect as "auto-detected" exactly when the parameter was empty or      *)
(* absent.                                                                 *)
(***************************************************************************)
TargetParam == Get(params, "target_dialect", "")
DialectField == IF tool = "transpile" THEN "source_dialect" ELSE "dialect"
C9_AutoDetect ==
    Done =>
        /\ ~Truthy(DialectParam) =>
              /\ \A i \in 1..Len(out.calls) : out.calls[i].dialect = None
              /\ (SqlParam = SqlStatement /\ out.calls # <<>>
                     /\ (tool = "transpile" => TargetParam \in KnownDialects))
                    => out.fault.cls \notin {"ValueError", "ParseError", "TokenError"}
        /\ \A i \in 1..Len(out.msgs) :
              DialectField \in DOMAIN out.msgs[i].body =>
                 (out.msgs[i].body[DialectField] = "auto-detected" <=> ~Truthy(DialectParam))

\* the dialect parameter is the empty string and the invocation succeeded as auto-detected
C9_Witness ==
    /\ Done /\ DialectParam = "" /\ params[DialectField] = ""
    /\ out.path = "success" /\ out.calls # <<>>
    /\ LastMsg.body[DialectField] = "auto-detected"

(***************************************************************************)
(* C10: when a non-empty dialect name (transpile's target included) is not *)
(* in the dialect registry, the invocation ends with a failure and emits   *)
(* no success payload, no transformed SQL and no rows; the name reaches    *)
(* the engine as given, never replaced by the default dialect.             *)
(***************************************************************************)
UnknownName(d) == Truthy(d) /\ d \notin KnownDialects
C10_UnknownDialectFails ==
    Done =>
        /\ UnknownName(DialectParam) =>
              /\ out.msgs # <<>> /\ NoSuccessMsg
              /\ \A i \in 1..Len(out.calls) : out.calls[i].dialect = DialectParam
        /\ (tool = "transpile" /\ UnknownName(TargetParam)) =>
              /\ out.msgs # <<>> /\ NoSuccessMsg
              /\ \A i \in 1..Len(out.calls) : out.calls[i].write = TargetParam

\* the engine refused the unknown name and the tool answered with an error payload
C10_Witness ==
    /\ Done /\ UnknownName(DialectParam) /\ SqlParam = SqlStatement
    /\ out.calls # <<>> /\ out.fault.cls = "ValueError" /\ EndsInErrorPayload


\* the tools that parse SQL
ParsingTools == {"validate", "analyze", "format", "transpile", "optimize"}
\* a parsing tool's engine call raised a ParseError that carries the parser's
\* structured error (an unexpected token)
ParseFailedOnToken ==
    /\ Done /\ tool \in ParsingTools
    /\ out.fault.cls = "ParseError" /\ out.fault.errors # <<>>

(***************************************************************************)
(* C11: whenever parsing fails on an unexpected token in validate,         *)
(* analyze, format, transpile or optimize, the failure payload carries,    *)
(* for each error of the parser, its description, line, column and the     *)
(* three parts of the context window, with the parser's values unchanged.  *)
(***************************************************************************)
C11_ParseErrorDetails ==
    ParseFailedOnToken =>
        /\ EndsInErrorPayload
        /\ "error_details" \in DOMAIN LastMsg.body
        /\ LastMsg.body.error_details = out.fault.errors

\* the execute tool called the executor and it returned a relation
ExecutorReturned ==
    /\ Done /\ tool = "execute"
    /\ out.calls # <<>> /\ ~Raised(env.exec)
\* the column names of a relation
ColumnNames(rel) == {rel.columns[j] : j \in 1..Len(rel.columns)}

(***************************************************************************)
(* C12: for the relation the executor returns, with column list C and row  *)
(* sequence R, the success payload of the execute tool has columns = C in  *)
(* order, row_count = |R| = the length of data, and data[i] has exactly    *)
(* the keys of C, the value under column C[j] being the serialized         *)
(* R[i][j]: no row is dropped, duplicated or reordered.                    *)
(***************************************************************************)
C12_RelationCarried ==
    ExecutorReturned =>
        LET rel == env.exec.val
            body == LastMsg.body
        IN /\ LastMsg.kind = "json" /\ LastMsg.tag = "success"
           /\ body.columns = rel.columns
           /\ body.row_count = Len(rel.rows)
           /\ Len(body.data) = Len(rel.rows)
           /\ \A i \in 1..Len(rel.rows) :
                  /\ DOMAIN body.data[i] = ColumnNames(rel)
                  /\ \A j \in 1..Len(rel.columns) :
                         body.data[i][rel.columns[j]] = SerializeValue(rel.rows[i][j])

\* the executor returned two different rows of two columns, one value a tuple
\* holding a date, and the payload carries both rows
C12_Witness ==
    /\ ExecutorReturned
    /\ Len(env.exec.val.columns) = 2 /\ Len(env.exec.val.rows) = 2
    /\ env.exec.val.rows[1] # env.exec.val.rows[2]
    /\ env.exec.val.rows[1][2] = TupleVal(<<IntVal(1), DateVal(7)>>)
    /\ LastMsg.body.data[1]["v"] = ListVal(<<IntVal(1), StrVal(7)>>)
    /\ LastMsg.body.row_count = 2

\* the tools that take a script of several statements
ScriptTools == {"format", "validate", "transpile"}
\* a script tool handed the engine a text one of whose statements does not parse
ScriptFailsToParse ==
    /\ Done /\ tool \in ScriptTools
    /\ SqlParam \in {SqlBad, SqlLateBad}
    /\ out.calls # <<>>
\* the fields of a payload that hold per-statement results
PerStatementKeys ==
    {"formatted_sql", "transpiled_sql", "statements", "statement_count", "statement_types"}

(***************************************************************************)
(* C13: in script mode (format, validate, transpile), if a statement of    *)
(* the input fails to parse, what was parsed before it is discarded: the   *)
(* invocation emits one failure text and one failure payload for the       *)
(* script as a whole, no formatted or transpiled SQL and no per-statement  *)
(* list.                                                                   *)
(***************************************************************************)
C13_ScriptFailureDiscardsPartial ==
    ScriptFailsToParse =>
        /\ out.fault # NoExc /\ ~out.escaped
        /\ Len(out.msgs) = 2
        /\ out.msgs[1].kind = "text" /\ EndsInErrorPayload
        /\ NoSuccessMsg
        /\ DOMAIN LastMsg.body \cap PerStatementKeys = {}
        /\ LastMsg.body.original_sql = SqlParam

\* the second statement of a script handed to format failed to parse, and the
\* answer is the failure payload of the ParseError
C13_Witness ==
    /\ ScriptFailsToParse /\ tool = "format" /\ SqlParam = SqlLateBad
    /\ out.fault = ParseErr
    /\ LastMsg.body.error_type = "ParseError"

(***************************************************************************)
(* C14: within one invocation the dialect selected by the dialect          *)
(* parameter is passed to every engine call: every parse and every         *)
(* render-to-text call receives it, and none runs with the implicit        *)
(* default dialect when a dialect was selected.                            *)
(***************************************************************************)
C14_DialectPassedToEveryCall ==
    (Done /\ Truthy(DialectParam)) =>
        \A i \in 1..Len(out.calls) : out.calls[i].dialect = DialectParam

\* the tables parameter of the invocation and what json.loads makes of it
TablesParam == Get(params, "tables", "")
DecodedTables == JsonLoads(TablesParam)
TableItems == DecodedTables.val.items
\* table k is no array, or one of its rows is no object
NotArray(k) == TableItems[k].value.type # "array"
HasBadRow(k) ==
    /\ ~NotArray(k)
    /\ \E r \in 1..Len(TableItems[k].value.items) :
           TableItems[k].value.items[r].type # "object"
BadTables == {k \in 1..Len(TableItems) : NotArray(k) \/ HasBadRow(k)}
FirstBadTable == CHOOSE k \in BadTables : \A j \in BadTables : k <= j
\* the guards up to the decoded value being an object
EarlyGuard ==
    IF ~Truthy(SqlParam) THEN "guard_sql"
    ELSE IF ~Truthy(TablesParam) THEN "guard_tables"
    ELSE IF Raised(DecodedTables)
    THEN (IF DecodedTables.exc.cls = "JSONDecodeError" THEN "guard_json"
          ELSE "decode_error")
    ELSE IF DecodedTables.val.type # "object" THEN "guard_object"
    ELSE "ok"
\* the first guard that fails when each table is tested, then its rows, table by table
FirstGuardTableByTable ==
    IF EarlyGuard # "ok" THEN EarlyGuard
    ELSE IF BadTables = {} THEN "ok"
    ELSE IF NotArray(FirstBadTable) THEN "guard_array" ELSE "guard_row"
\* the first guard that fails when every table is tested before any row, and any
\* failure to decode counts as the JSON guard
FirstGuardAsClaimed ==
    IF EarlyGuard = "decode_error" THEN "guard_json"
    ELSE IF EarlyGuard # "ok" THEN EarlyGuard
    ELSE IF \E k \in 1..Len(TableItems) : NotArray(k) THEN "guard_array"
    ELSE IF BadTables # {} THEN "guard_row"
    ELSE "ok"
\* the invocation answered guard g: one text message, no JSON message and no
\* executor call if g failed, the executor called once if every guard passed
AnsweredGuard(g) ==
    IF g = "ok"
    THEN Len(out.calls) = 1 /\ out.calls[1].fn = "execute"
    ELSE /\ out.calls = <<>>
         /\ Len(out.msgs) = 1
         /\ out.msgs[1].kind = "text" /\ out.msgs[1].tag = GuardText(g)

(***************************************************************************)
(* C15 as claimed: the execute tool calls the executor only after the      *)
(* guards passed in the order sql non-empty, tables non-empty, tables      *)
(* decodes, the value is an object, every table is an array, every row of  *)
(* every table is an object; the first guard that fails gives exactly one  *)
(* text message, no JSON message and no executor call.                     *)
(***************************************************************************)
C15_Original ==
    (Done /\ tool = "execute") => AnsweredGuard(FirstGuardAsClaimed)

(***************************************************************************)
(* C15 as amended: the guards are sql non-empty, tables non-empty, tables  *)
(* decodes, the value is an object, then table by table in order: the      *)
(* table is an array and each of its rows is an object.  The first guard   *)
(* that fails gives exactly one text message, no JSON message and no       *)
(* executor call, except that a decoding failure other than                *)
(* JSONDecodeError gives a text and an error payload; the executor is      *)
(* called only when every guard passed.                                    *)
(***************************************************************************)
C15_GuardsTableByTable ==
    (Done /\ tool = "execute") =>
        IF FirstGuardTableByTable = "decode_error"
        THEN /\ out.calls = <<>>
             /\ Len(out.msgs) = 2
             /\ out.msgs[1].kind = "text" /\ EndsInErrorPayload
        ELSE AnsweredGuard(FirstGuardTableByTable)

\* the first table holds a row that is no object and the second is no array:
\* the answer is the row guard's text, and the executor was not called
C15_Witness ==
    /\ Done /\ tool = "execute" /\ TablesParam = JsonRowThenTable
    /\ Truthy(SqlParam)
    /\ out.calls = <<>> /\ Len(out.msgs) = 1
    /\ out.msgs[1].tag = GuardText("guard_row")

\* the positions of the JSON messages among the messages of the invocation
JsonPositions == {i \in 1..Len(out.msgs) : out.msgs[i].kind = "json"}

(***************************************************************************)
(* C16: in every invocation of every tool, along every path (guard         *)
(* failure, success, ParseError, other exception, inner executor or        *)
(* optimizer failure), at most one JSON message is emitted, and when one   *)
(* is emitted it is the final message: no message follows a JSON message.  *)
(***************************************************************************)
C16_JsonMessageIsLast ==
    Done =>
        /\ Cardinality(JsonPositions) <= 1
        /\ \A i \in JsonPositions : i = Len(out.msgs)

\* an engine call raised after others had returned; the except clause yielded
\* a text and then the one JSON message
C16_Witness ==
    /\ Done /\ out.fault # NoExc /\ Len(out.calls) >= 2
    /\ Len(out.msgs) = 2
    /\ JsonPositions = {2}

====
